---- MODULE Spec2Model ----
(***************************************************************************)
(* Model of src/main.ts of cachix-action: the pre-job step setup(), the    *)
(* post-job step upload(), the detached daemon started by setup and the    *)
(* un-awaited fs.chmod promise.  One job is modelled: the main process     *)
(* runs setup(), exits, and the post process runs upload().  State that    *)
(* crosses the two processes lives in env (exported variables, saved       *)
(* state) and in files on disk.                                            *)
(*                                                                         *)
(* Strings that the code transforms (extraPullNames, the pid file) are     *)
(* sequences of one-character strings.                                     *)
(***************************************************************************)
EXTENDS Integers, Sequences, FiniteSets, TLC

\* ---------------------------------------------------------------- bounds
MaxLen == 3       \* longest extraPullNames input, in characters (SpecNames)
NumDirs == 2      \* distinct directories mkdtemp may create

Alphabet == {"a", "b", " ", ","}
Names == {<<"m">>, <<"n">>}
\* pids the operating system may give the daemon (one and two digits)
Pids == {7, 12}
\* extraPullNames inputs of Spec: none, one name, two padded names
ExtraPullSamples == {<<>>, <<"a">>, <<"b", ",", " ", "a", " ">>}
Flags == {"true", "false", ""}
Secrets == {<<>>, <<"k">>}

\* ------------------------------------------------------- string helpers
\* String.prototype.trim: the characters it strips.
IsWhitespace(c) == c \in {" ", "\t", "\n"}

RECURSIVE TrimStart(_)
TrimStart(s) ==
  IF s # <<>> /\ IsWhitespace(Head(s)) THEN TrimStart(Tail(s)) ELSE s

RECURSIVE TrimEnd(_)
TrimEnd(s) ==
  IF s # <<>> /\ IsWhitespace(s[Len(s)])
  THEN TrimEnd(SubSeq(s, 1, Len(s) - 1))
  ELSE s

TrimStartOnly(s) == TrimStart(s)

\* itemName.trim()
Trim(s) == TrimEnd(TrimStart(s))

RECURSIVE SplitFrom(_, _, _, _)
SplitFrom(s, k, cur, acc) ==
  IF k > Len(s) THEN Append(acc, cur)
  ELSE IF s[k] = "," THEN SplitFrom(s, k + 1, <<>>, Append(acc, cur))
  ELSE SplitFrom(s, k + 1, Append(cur, s[k]), acc)

\* extraPullNames.split(',')
Split(s) == SplitFrom(s, 1, <<>>, <<>>)

Digits == <<"0", "1", "2", "3", "4", "5", "6", "7", "8", "9">>

\* daemon.pid.toString()
RECURSIVE PidToString(_)
PidToString(n) ==
  IF n < 10 THEN <<Digits[n + 1]>>
  ELSE Append(PidToString(n \div 10), Digits[(n % 10) + 1])

DigitValue(c) == CHOOSE d \in 0..9 : Digits[d + 1] = c
IsDigit(c) == \E d \in 0..9 : Digits[d + 1] = c

\* parseInt yields NaN when no digit leads the string.
NaN == -1

RECURSIVE ParseDigits(_, _)
ParseDigits(s, acc) ==
  IF s # <<>> /\ IsDigit(Head(s))
  THEN ParseDigits(Tail(s), acc * 10 + DigitValue(Head(s)))
  ELSE acc

\* parseInt(text): leading whitespace skipped, then the leading digits.
ParseInt(s) ==
  LET t == TrimStart(s)
  IN IF t # <<>> /\ IsDigit(Head(t)) THEN ParseDigits(t, 0) ELSE NaN

StrUpTo(n) == UNION {[1..k -> Alphabet] : k \in 0..n}

\* ---------------------------------------------------------------- state
VARIABLES
  name, extraPullNames, signingKey, authToken, skipPush,
  skipAddingSubstituter, useDaemon,   \* the inputs, read once at load
  pc,                 \* position of the running step ("start" before main)
  extraPullNameList,  \* setup: the split list
  idx,                \* setup: index of the next extra cache name
  env,                \* exported variables and saved state of the job
  daemonDir,          \* setup: the directory mkdtemp returned (0: none yet)
  daemon,             \* the spawned child: [state, pid, socket]
  fs,                 \* files on disk: pid file, log, hook script, nix.conf
  chmodPromise,       \* the promise of the un-awaited fs.chmod
  up,                 \* upload's locals: daemonDir, daemonPid, the log tail
  events              \* every operation performed so far, in order

inputs == <<name, extraPullNames, signingKey, authToken, skipPush,
            skipAddingSubstituter, useDaemon>>
vars == <<inputs, pc, extraPullNameList, idx, env, daemonDir, daemon, fs,
          chmodPromise, up, events>>

ENV_CACHIX_DAEMON_DIR == "CACHIX_DAEMON_DIR"

NoDir == 0          \* an undefined directory (process.env[...] unset)
NoPid == 0          \* daemon.pid === undefined
NoFile == <<>>

SockPath(d) == <<d, "daemon.sock">>
PidPath(d) == <<d, "daemon.pid">>
LogPath(d) == <<d, "daemon.log">>
HookPath(d) == <<d, "cachix-post-build-hook.sh">>

Event(step, op, arg, ok) == [step |-> step, op |-> op, arg |-> arg, ok |-> ok]

\* The state when the job starts: nothing exported, nothing on disk.
InitState ==
  /\ pc = "start"
  /\ extraPullNameList = <<>>
  /\ idx = 1
  /\ env = [CACHIX_SIGNING_KEY |-> <<>>, CACHIX_DAEMON_DIR |-> NoDir,
            STATE_isPost |-> FALSE]
  /\ daemonDir = NoDir
  /\ daemon = [state |-> "none", pid |-> NoPid, socket |-> SockPath(NoDir)]
  /\ fs = [pidFile |-> NoFile, logFile |-> NoFile, hook |-> NoFile,
           nixConf |-> <<>>]
  /\ chmodPromise = "none"
  /\ up = [daemonDir |-> NoDir, daemonPid |-> NoPid, tail |-> "none"]
  /\ events = <<>>

\* Every combination of the flags and credentials, a few extra-name lists.
Init ==
  /\ name \in Names
  /\ extraPullNames \in ExtraPullSamples
  /\ signingKey \in Secrets
  /\ authToken \in Secrets
  /\ skipPush \in {"true", "false"}
  /\ skipAddingSubstituter \in {"true", "false"}
  /\ useDaemon \in Flags
  /\ InitState

\* Every extra-name list up to MaxLen characters, credentials present.
InitNames ==
  /\ name = <<"m">>
  /\ extraPullNames \in StrUpTo(MaxLen)
  /\ signingKey = <<"k">>
  /\ authToken = <<"k">>
  /\ skipPush = "false"
  /\ skipAddingSubstituter \in {"true", "false"}
  /\ useDaemon \in {"true", "false"}
  /\ InitState

\* One step of a sequential handler: from one position to the next, the
\* operation performed recorded in events.
Step(from, to, ev) ==
  /\ pc = from
  /\ pc' = to
  /\ events' = Append(events, ev)

Goto(from, to) ==
  /\ pc = from
  /\ pc' = to
  /\ UNCHANGED events

setupLocals == <<extraPullNameList, idx, daemonDir>>
world == <<env, daemon, fs, chmodPromise, up>>

\* ------------------------------------------------------------ decisions
IsDaemonModeTruthy == useDaemon # ""

\* useDaemon === 'true'
IsDaemonMode == useDaemon = "true"

ShouldPushIgnoringSkip == signingKey # <<>> \/ authToken # <<>>

\* upload's guard: skipPush !== 'true' and a credential is present
ShouldPush == skipPush # "true" /\ (signingKey # <<>> \/ authToken # <<>>)

AfterUseIgnoringReturnCode(ok, next) == next

\* await exec.exec('cachix', ['use', ...]): a non-zero exit rejects, and
\* the rejection lands in setup's catch.
AfterUse(ok, next) == IF ok THEN next ELSE "s_catch"

AfterKillRethrow(threw) == IF threw THEN "u_catch" ELSE "u_unwatch"

\* try { process.kill(daemonPid, 'SIGINT') } catch (err) { /* nothing */ }
AfterKill(threw) == "u_unwatch"

HookScriptStaleSocket(dir, nm) ==
  [dir |-> dir, socket |-> SockPath(NoDir), name |-> nm, executable |-> FALSE]

\* The generated cachix-post-build-hook.sh:
\*   exec ${cachix} daemon push --socket ${daemonDir}/daemon.sock ${name} $OUT_PATHS
HookScript(dir, nm) ==
  [dir |-> dir, socket |-> SockPath(dir), name |-> nm, executable |-> FALSE]

\* ---------------------------------------------------------------- setup
\* Main, first invocation: save isPost and call setup().
Main ==
  /\ ~env.STATE_isPost
  /\ Step("start", "s_which", Event("setup", "saveState", <<"isPost">>, TRUE))
  /\ env' = [env EXCEPT !.STATE_isPost = TRUE]
  /\ UNCHANGED <<inputs, setupLocals, daemon, fs, chmodPromise, up>>

\* which.sync('cachix', {nothrow: true}); install when it is missing.
SetupInstall ==
  /\ \E found \in BOOLEAN :
       IF found
       THEN Goto("s_which", "s_version")
       ELSE \E ok \in BOOLEAN :
              Step("s_which", IF ok THEN "s_version" ELSE "s_catch",
                   Event("setup", "install", <<>>, ok))
  /\ UNCHANGED <<inputs, setupLocals, world>>

SetupVersion ==
  /\ \E ok \in BOOLEAN :
       Step("s_version", IF ok THEN "s_auth" ELSE "s_catch",
            Event("setup", "version", <<>>, ok))
  /\ UNCHANGED <<inputs, setupLocals, world>>

SetupAuthToken ==
  /\ IF authToken # <<>>
     THEN \E ok \in BOOLEAN :
            Step("s_auth", IF ok THEN "s_use" ELSE "s_catch",
                 Event("setup", "authtoken", authToken, ok))
     ELSE Goto("s_auth", "s_use")
  /\ UNCHANGED <<inputs, setupLocals, world>>

\* The primary cache, unless skipAddingSubstituter === 'true'.
SetupUse ==
  /\ IF skipAddingSubstituter = "true"
     THEN Step("s_use", "s_extra", Event("setup", "info", <<>>, TRUE))
     ELSE \E ok \in BOOLEAN :
            Step("s_use", AfterUse(ok, "s_extra"),
                 Event("setup", "use", name, ok))
  /\ UNCHANGED <<inputs, setupLocals, world>>

SetupExtraSplit ==
  /\ IF extraPullNames # <<>>
     THEN /\ Goto("s_extra", "s_extra_loop")
          /\ extraPullNameList' = Split(extraPullNames)
     ELSE /\ Goto("s_extra", "s_signkey")
          /\ UNCHANGED extraPullNameList
  /\ idx' = 1
  /\ UNCHANGED <<inputs, daemonDir, world>>

\* One turn of: for (let itemName of extraPullNameList) { ... }
SetupExtraUse ==
  /\ IF idx <= Len(extraPullNameList)
     THEN /\ \E ok \in BOOLEAN :
               Step("s_extra_loop", AfterUse(ok, "s_extra_loop"),
                    Event("setup", "use", Trim(extraPullNameList[idx]), ok))
          /\ idx' = idx + 1
     ELSE /\ Goto("s_extra_loop", "s_signkey")
          /\ UNCHANGED idx
  /\ UNCHANGED <<inputs, extraPullNameList, daemonDir, world>>

SetupSigningKey ==
  /\ IF signingKey # <<>>
     THEN /\ Step("s_signkey", "s_mode",
                  Event("setup", "exportSigningKey", signingKey, TRUE))
          /\ env' = [env EXCEPT !.CACHIX_SIGNING_KEY = signingKey]
     ELSE /\ Goto("s_signkey", "s_mode")
          /\ UNCHANGED env
  /\ UNCHANGED <<inputs, setupLocals, daemon, fs, chmodPromise, up>>

SetupMode ==
  /\ Goto("s_mode", IF IsDaemonMode THEN "s_mkdtemp" ELSE "s_snapshot")
  /\ UNCHANGED <<inputs, setupLocals, world>>

\* Direct mode: list-nix-store.sh > /tmp/store-path-pre-build
SetupSnapshot ==
  /\ \E ok \in BOOLEAN :
       Step("s_snapshot", IF ok THEN "s_exit" ELSE "s_catch",
            Event("setup", "snapshot", <<"/tmp/store-path-pre-build">>, ok))
  /\ UNCHANGED <<inputs, setupLocals, world>>

SetupMkdtemp ==
  /\ \E d \in 1..NumDirs, ok \in BOOLEAN :
       /\ Step("s_mkdtemp", IF ok THEN "s_openlog" ELSE "s_catch",
               Event("setup", "mkdtemp", <<d>>, ok))
       /\ daemonDir' = IF ok THEN d ELSE daemonDir
  /\ UNCHANGED <<inputs, extraPullNameList, idx, world>>

SetupOpenLog ==
  /\ \E ok \in BOOLEAN :
       /\ Step("s_openlog", IF ok THEN "s_spawn" ELSE "s_catch",
               Event("setup", "openLog", LogPath(daemonDir), ok))
       /\ fs' = IF ok THEN [fs EXCEPT !.logFile = LogPath(daemonDir)] ELSE fs
  /\ UNCHANGED <<inputs, setupLocals, env, daemon, chmodPromise, up>>

\* spawn('cachix', ['daemon','run','--socket', ...], {detached: true}).
\* Three outcomes: a process comes to be (daemon.pid is its pid); spawn
\* throws, which setup's catch takes; or no process comes to be, daemon.pid
\* is undefined and the child emits 'error' on the next tick.  The code
\* registers no 'error' listener, so that event is an uncaught exception.
SetupSpawn ==
  /\ \/ \E p \in Pids :
          /\ Step("s_spawn", "s_writepid",
                  Event("setup", "spawn", SockPath(daemonDir), TRUE))
          /\ daemon' = [state |-> "running", pid |-> p,
                        socket |-> SockPath(daemonDir)]
     \/ /\ Step("s_spawn", "s_writepid",
                Event("setup", "spawn", SockPath(daemonDir), FALSE))
        /\ daemon' = [state |-> "failed", pid |-> NoPid,
                      socket |-> SockPath(daemonDir)]
     \/ /\ Step("s_spawn", "s_catch",
                Event("setup", "spawn", SockPath(daemonDir), FALSE))
        /\ UNCHANGED daemon
  /\ UNCHANGED <<inputs, setupLocals, env, fs, chmodPromise, up>>

SetupWritePid ==
  /\ IF daemon.pid # NoPid
     THEN \E ok \in BOOLEAN :
            /\ Step("s_writepid", IF ok THEN "s_which2" ELSE "s_catch",
                    Event("setup", "writePid", PidPath(daemonDir), ok))
            /\ fs' = IF ok
                     THEN [fs EXCEPT !.pidFile =
                             [dir |-> daemonDir, text |-> PidToString(daemon.pid)]]
                     ELSE fs
     ELSE /\ Goto("s_writepid", "s_which2")
          /\ UNCHANGED fs
  /\ UNCHANGED <<inputs, setupLocals, env, daemon, chmodPromise, up>>

\* which.sync('cachix') throws when the executable is not found.
SetupWhichCachix ==
  /\ \E ok \in BOOLEAN :
       Step("s_which2", IF ok THEN "s_writehook" ELSE "s_catch",
            Event("setup", "which", <<>>, ok))
  /\ UNCHANGED <<inputs, setupLocals, world>>

\* await fs.writeFile(postBuildHookPath, ...).  With pid undefined this is
\* the first await after spawn: the pending 'error' event is emitted while
\* setup is suspended here and ends the process, the write done or not.
SetupWriteHook ==
  /\ \E ok \in BOOLEAN :
       /\ IF daemon.state = "failed"
          THEN /\ pc = "s_writehook"
               /\ pc' = "crashed"
               /\ events' = events \o
                    << Event("setup", "writeHook", HookPath(daemonDir), ok),
                       Event("setup", "uncaughtException", <<>>, FALSE) >>
          ELSE Step("s_writehook", IF ok THEN "s_chmod" ELSE "s_catch",
                    Event("setup", "writeHook", HookPath(daemonDir), ok))
       /\ fs' = IF ok THEN [fs EXCEPT !.hook = HookScript(daemonDir, name)]
                ELSE fs
  /\ UNCHANGED <<inputs, setupLocals, env, daemon, chmodPromise, up>>

\* The pending 'error' event of a failed spawn when setup() returned
\* before reaching an await (which.sync threw): emitted once setup is over.
SpawnErrorEmitted ==
  /\ daemon.state = "failed"
  /\ Step("s_exit", "crashed",
          Event("setup", "uncaughtException", <<>>, FALSE))
  /\ UNCHANGED <<inputs, setupLocals, world>>

\* fs.chmod(postBuildHookPath, 0o755): started, not awaited.
SetupChmod ==
  /\ Step("s_chmod", "s_mkdir",
          Event("setup", "chmod", HookPath(daemonDir), TRUE))
  /\ chmodPromise' = "pending"
  /\ UNCHANGED <<inputs, setupLocals, env, daemon, fs, up>>

SetupMkdir ==
  /\ \E ok \in BOOLEAN :
       Step("s_mkdir", IF ok THEN "s_register" ELSE "s_catch",
            Event("setup", "mkdirNix", <<>>, ok))
  /\ UNCHANGED <<inputs, setupLocals, world>>

\* openSync(nix.conf, 'a'); writeSync(post-build-hook = ...); close
SetupRegisterHook ==
  /\ \E ok \in BOOLEAN :
       /\ Step("s_register", IF ok THEN "s_export" ELSE "s_catch",
               Event("setup", "appendNixConf", HookPath(daemonDir), ok))
       /\ fs' = IF ok
                THEN [fs EXCEPT !.nixConf = Append(@, HookPath(daemonDir))]
                ELSE fs
  /\ UNCHANGED <<inputs, setupLocals, env, daemon, chmodPromise, up>>

SetupExportDaemonDir ==
  /\ Step("s_export", "s_unref",
          Event("setup", "exportDaemonDir", <<daemonDir>>, TRUE))
  /\ env' = [env EXCEPT !.CACHIX_DAEMON_DIR = daemonDir]
  /\ UNCHANGED <<inputs, setupLocals, daemon, fs, chmodPromise, up>>

SetupUnref ==
  /\ Step("s_unref", "s_exit", Event("setup", "unref", <<>>, TRUE))
  /\ UNCHANGED <<inputs, setupLocals, world>>

\* catch (error) { core.setFailed(...) }
SetupCatch ==
  /\ Step("s_catch", "s_exit", Event("setup", "setFailed", <<>>, TRUE))
  /\ UNCHANGED <<inputs, setupLocals, world>>

\* The un-awaited chmod promise settles while setup is suspended at an
\* await or after setup() has returned.  Nothing handles its rejection:
\* Node either terminates the process (unhandled rejections throw) or only
\* warns, depending on the runtime's unhandled-rejections mode.
ChmodSettles ==
  /\ chmodPromise = "pending"
  /\ pc \in {"s_register", "s_catch", "s_exit"}
  /\ \/ /\ chmodPromise' = "fulfilled"
        /\ fs' = [fs EXCEPT !.hook.executable = TRUE]
        /\ UNCHANGED <<pc, events>>
     \/ /\ chmodPromise' = "rejected"
        /\ events' = Append(events,
                       Event("setup", "unhandledRejection",
                             HookPath(daemonDir), FALSE))
        /\ \E mode \in {"throw", "warn"} :
             pc' = IF mode = "throw" THEN "crashed" ELSE pc
        /\ UNCHANGED fs
  /\ UNCHANGED <<inputs, setupLocals, env, daemon, up>>

\* --------------------------------------------------------------- daemon
\* The detached daemon may end on its own at any time (it outlives setup).
DaemonDies ==
  /\ daemon.state = "running"
  /\ daemon' = [daemon EXCEPT !.state = "exited"]
  /\ UNCHANGED <<inputs, pc, setupLocals, env, fs, chmodPromise, up, events>>

\* After SIGINT the daemon flushes its queue and exits, in its own time.
DaemonExit ==
  /\ daemon.state = "stopping"
  /\ daemon' = [daemon EXCEPT !.state = "exited"]
  /\ UNCHANGED <<inputs, pc, setupLocals, env, fs, chmodPromise, up, events>>

DaemonAlive(p) == daemon.pid = p /\ daemon.state \in {"running", "stopping"}

\* --------------------------------------------------------------- upload
\* Main, second invocation (STATE_isPost set): the main process has ended,
\* which it does only once no operation of it is pending.
Post ==
  /\ env.STATE_isPost
  /\ \/ pc = "s_exit" /\ chmodPromise # "pending" /\ daemon.state # "failed"
     \/ pc = "crashed"
  /\ pc' = "u_start"
  /\ UNCHANGED <<inputs, setupLocals, world, events>>

UploadStart ==
  /\ pc = "u_start"
  /\ IF ~ShouldPush
     THEN /\ pc' = "u_end"
          /\ events' = events \o
               << Event("upload", "startGroup", <<>>, TRUE),
                  Event("upload", "info", <<>>, TRUE) >>
     ELSE /\ pc' = IF IsDaemonMode THEN "u_readenv" ELSE "u_push"
          /\ events' = Append(events, Event("upload", "startGroup", <<>>, TRUE))
  /\ UNCHANGED <<inputs, setupLocals, world>>

\* const daemonDir = process.env[ENV_CACHIX_DAEMON_DIR]
UploadReadEnv ==
  /\ Step("u_readenv", "u_readpid",
          Event("upload", "readEnv", <<env.CACHIX_DAEMON_DIR>>, TRUE))
  /\ up' = [up EXCEPT !.daemonDir = env.CACHIX_DAEMON_DIR]
  /\ UNCHANGED <<inputs, setupLocals, env, daemon, fs, chmodPromise>>

\* parseInt(await fs.readFile(`${daemonDir}/daemon.pid`, 'utf8'))
UploadReadPid ==
  /\ \E ok \in BOOLEAN :
       /\ ok => fs.pidFile # NoFile /\ fs.pidFile.dir = up.daemonDir
       /\ Step("u_readpid", IF ok THEN "u_tail" ELSE "u_catch",
               Event("upload", "readPid", PidPath(up.daemonDir), ok))
       /\ up' = IF ok THEN [up EXCEPT !.daemonPid = ParseInt(fs.pidFile.text)]
                ELSE up
  /\ UNCHANGED <<inputs, setupLocals, env, daemon, fs, chmodPromise>>

\* new Tail(`${daemonDir}/daemon.log`, {fromBeginning: true})
UploadTail ==
  /\ \E ok \in BOOLEAN :
       /\ ok => fs.logFile = LogPath(up.daemonDir)
       /\ Step("u_tail", IF ok THEN "u_kill" ELSE "u_catch",
               Event("upload", "tail", LogPath(up.daemonDir), ok))
       /\ up' = IF ok THEN [up EXCEPT !.tail = "watching"] ELSE up
  /\ UNCHANGED <<inputs, setupLocals, env, daemon, fs, chmodPromise>>

\* process.kill(daemonPid, 'SIGINT') throws when no such process exists
\* (or the pid is NaN); the inner catch swallows it.
UploadKill ==
  /\ LET delivered == up.daemonPid # NaN /\ DaemonAlive(up.daemonPid)
     IN /\ Step("u_kill", AfterKill(~delivered),
                Event("upload", "kill", <<up.daemonPid>>, delivered))
        /\ daemon' = IF delivered /\ daemon.state = "running"
                     THEN [daemon EXCEPT !.state = "stopping"]
                     ELSE daemon
  /\ UNCHANGED <<inputs, setupLocals, env, fs, chmodPromise, up>>

\* core.debug('Waiting for Cachix daemon to exit...'); daemonLog.unwatch()
UploadUnwatch ==
  /\ Step("u_unwatch", "u_end", Event("upload", "unwatch", <<>>, TRUE))
  /\ up' = [up EXCEPT !.tail = "unwatched"]
  /\ UNCHANGED <<inputs, setupLocals, env, daemon, fs, chmodPromise>>

\* Direct mode: push-paths.sh cachix cachixArgs name pathsToPush pushFilter
UploadPush ==
  /\ \E ok \in BOOLEAN :
       Step("u_push", IF ok THEN "u_end" ELSE "u_catch",
            Event("upload", "pushPaths", name, ok))
  /\ UNCHANGED <<inputs, setupLocals, world>>

UploadCatch ==
  /\ Step("u_catch", "u_end", Event("upload", "setFailed", <<>>, TRUE))
  /\ UNCHANGED <<inputs, setupLocals, world>>

UploadEnd ==
  /\ Step("u_end", "done", Event("upload", "endGroup", <<>>, TRUE))
  /\ UNCHANGED <<inputs, setupLocals, world>>

Next ==
  \/ Main \/ SetupInstall \/ SetupVersion \/ SetupAuthToken \/ SetupUse
  \/ SetupExtraSplit \/ SetupExtraUse \/ SetupSigningKey \/ SetupMode
  \/ SetupSnapshot \/ SetupMkdtemp \/ SetupOpenLog \/ SetupSpawn
  \/ SetupWritePid \/ SetupWhichCachix \/ SetupWriteHook \/ SetupChmod
  \/ SetupMkdir \/ SetupRegisterHook \/ SetupExportDaemonDir \/ SetupUnref
  \/ SetupCatch \/ SpawnErrorEmitted \/ ChmodSettles \/ DaemonDies \/ DaemonExit \/ Post
  \/ UploadStart \/ UploadReadEnv \/ UploadReadPid \/ UploadTail
  \/ UploadKill \/ UploadUnwatch \/ UploadPush \/ UploadCatch \/ UploadEnd

Spec == Init /\ [][Next]_vars

SpecNames == InitNames /\ [][Next]_vars

\* ------------------------------------------------ reading the event log
\* What the claims below say, they say of events: the record of the
\* operations the two steps performed, in order.
EventsOf(step) == SelectSeq(events, LAMBDA e : e.step = step)

HasOp(step, op) ==
  \E i \in DOMAIN events : events[i].step = step /\ events[i].op = op

CountOp(step, op) ==
  Cardinality({i \in DOMAIN events :
                 events[i].step = step /\ events[i].op = op})

OpsOf(step) == [i \in DOMAIN EventsOf(step) |-> EventsOf(step)[i].op]

\* The setup events recorded after position i of events.
SetupOpsAfter(i) ==
  LET rest == SubSeq(events, i + 1, Len(events))
      mine == SelectSeq(rest, LAMBDA e : e.step = "setup")
  IN [k \in DOMAIN mine |-> mine[k].op]

UploadOpsAfter(i) ==
  LET rest == SubSeq(events, i + 1, Len(events))
      mine == SelectSeq(rest, LAMBDA e : e.step = "upload")
  IN [k \in DOMAIN mine |-> mine[k].op]

UploadOver == pc = "done"

DirectOps == {"snapshot", "pushPaths"}
DaemonOps == {"mkdtemp", "openLog", "spawn", "writePid", "which",
              "writeHook", "chmod", "mkdirNix", "appendNixConf",
              "exportDaemonDir", "unref", "unhandledRejection",
              "uncaughtException", "readEnv", "readPid", "tail", "kill",
              "unwatch"}

\* ------------------------------------------------------------------ C1
PushCondition == skipPush # "true" /\ (signingKey # <<>> \/ authToken # <<>>)
PushActionTaken == HasOp("upload", "pushPaths") \/ HasOp("upload", "kill")

\* C1 (as claimed): once upload is over, a push action was taken (direct
\* mode: push-paths invoked; daemon mode: SIGINT sent) if and only if
\* skipPush is not 'true' and signingKey or authToken is non-empty; in every
\* other case upload performed nothing but the group markers and one
\* informational message.
C1_PushIffEnabled ==
  UploadOver =>
    /\ PushActionTaken <=> PushCondition
    /\ ~PushCondition => OpsOf("upload") = <<"startGroup", "info", "endGroup">>

\* C1 (amended): once upload is over, a push action was taken only if
\* skipPush is not 'true' and a credential is non-empty.  Under that
\* condition direct mode invoked push-paths exactly once, and daemon mode
\* sent SIGINT exactly when the pid file was read and the log tail opened;
\* when either of those failed it sent no signal and raised a job failure.
\* In every other case upload performed nothing but the group markers and
\* one informational message.
C1_PushOnlyIfEnabled ==
  UploadOver =>
    /\ PushActionTaken => PushCondition
    /\ PushCondition /\ useDaemon # "true" =>
         /\ CountOp("upload", "pushPaths") = 1
         /\ ~HasOp("upload", "kill")
    /\ PushCondition /\ useDaemon = "true" =>
         /\ ~HasOp("upload", "pushPaths")
         /\ HasOp("upload", "kill") <=>
              \E i, j \in DOMAIN events :
                /\ events[i].step = "upload" /\ events[i].op = "readPid"
                /\ events[i].ok
                /\ events[j].step = "upload" /\ events[j].op = "tail"
                /\ events[j].ok
         /\ ~HasOp("upload", "kill") => CountOp("upload", "setFailed") = 1
    /\ ~PushCondition => OpsOf("upload") = <<"startGroup", "info", "endGroup">>

\* Upload is over and the daemon received its SIGINT.
C1_Witness ==
  /\ UploadOver
  /\ PushCondition
  /\ \E i \in DOMAIN events : events[i].op = "kill" /\ events[i].ok

\* ------------------------------------------------------------------ C2
\* C2: in daemon mode, once upload is over, the daemon that setup started
\* has been sent SIGINT through its recorded pid.
C2_EveryDaemonSignalled ==
  UploadOver /\ useDaemon = "true" /\ daemon.pid # NoPid =>
    \E i \in DOMAIN events :
      /\ events[i].step = "upload" /\ events[i].op = "kill"
      /\ events[i].arg = <<daemon.pid>>

\* ------------------------------------------------------------------ C3
\* C3: the modes exclude each other for every value of useDaemon: with
\* 'true' neither step performs a direct-push operation; with any other
\* value neither step performs a daemon operation, and no daemon, file or
\* handoff variable of daemon mode exists.
C3_ModesExclusive ==
  /\ useDaemon = "true" =>
       \A i \in DOMAIN events : events[i].op \notin DirectOps
  /\ useDaemon # "true" =>
       /\ \A i \in DOMAIN events : events[i].op \notin DaemonOps
       /\ daemon.state = "none"
       /\ daemonDir = NoDir
       /\ fs.pidFile = NoFile /\ fs.logFile = NoFile /\ fs.hook = NoFile
       /\ fs.nixConf = <<>>
       /\ env.CACHIX_DAEMON_DIR = NoDir
       /\ chmodPromise = "none"
       /\ up.tail = "none"

\* A job whose useDaemon is neither 'true' nor 'false' ran both direct steps.
C3_Witness ==
  /\ UploadOver
  /\ useDaemon = ""
  /\ HasOp("setup", "snapshot")
  /\ HasOp("upload", "pushPaths")

\* ------------------------------------------------------------------ C4
\* The arguments of the 'cachix use' calls setup made, in call order.
UseCalls ==
  LET calls == SelectSeq(events, LAMBDA e : e.step = "setup" /\ e.op = "use")
  IN [k \in DOMAIN calls |-> calls[k].arg]

\* Registration is over and none of the calls up to its end failed.
RegistrationSucceeded ==
  /\ pc \notin {"start", "s_which", "s_version", "s_auth", "s_use",
                "s_extra", "s_extra_loop"}
  /\ \A i \in DOMAIN events :
       events[i].op \in {"install", "version", "authtoken", "use"}
         => events[i].ok

\* The list as the input states it: the j-th name is what stands between
\* the (j-1)-th and the j-th comma, without the whitespace around it.
CommaPositions(s) == {k \in 1..Len(s) : s[k] = ","}
NthComma(s, j) ==
  IF j = 0 THEN 0
  ELSE IF j > Cardinality(CommaPositions(s)) THEN Len(s) + 1
  ELSE CHOOSE k \in CommaPositions(s) :
         Cardinality({q \in CommaPositions(s) : q < k}) = j - 1
NthItem(s, j) == SubSeq(s, NthComma(s, j - 1) + 1, NthComma(s, j) - 1)
Stripped(t) ==
  LET solid == {k \in 1..Len(t) : ~IsWhitespace(t[k])}
  IN IF solid = {} THEN <<>>
     ELSE SubSeq(t, CHOOSE k \in solid : \A q \in solid : k <= q,
                    CHOOSE k \in solid : \A q \in solid : k >= q)
ExpectedExtraCalls(s) ==
  [j \in 1..(Cardinality(CommaPositions(s)) + 1) |-> Stripped(NthItem(s, j))]

\* C4: for a non-empty extraPullNames, when no call fails, setup makes one
\* 'cachix use' call per name of the comma-separated list, in input order,
\* each name stripped of surrounding whitespace, all after the call for the
\* primary cache (when that one is not skipped).
C4_ExtraNamesRegisteredInOrder ==
  extraPullNames # <<>> /\ RegistrationSucceeded =>
    UseCalls =
      (IF skipAddingSubstituter = "true" THEN <<>> ELSE <<name>>)
        \o ExpectedExtraCalls(extraPullNames)

\* Two padded names were registered after the primary cache.
C4_Witness ==
  /\ RegistrationSucceeded
  /\ skipAddingSubstituter # "true"
  /\ \E k \in DOMAIN extraPullNames : extraPullNames[k] = ","
  /\ \E k \in DOMAIN extraPullNames : extraPullNames[k] = " "
  /\ Len(UseCalls) = 3
  /\ UseCalls[2] # <<>>

\* ------------------------------------------------------------------ C5
\* C5: whatever directory upload takes from CACHIX_DAEMON_DIR, and reads
\* the pid file or tails the log in, is the directory setup created.
C5_HandoffDirIsSetupDir ==
  \A i \in DOMAIN events :
    events[i].step = "upload" /\ events[i].op \in {"readEnv", "readPid", "tail"}
      => /\ daemonDir # NoDir
         /\ events[i].arg[1] = daemonDir

\* ------------------------------------------------------------------ C6
\* C6: a hook script on disk invokes 'daemon push' with the socket path
\* given to the spawned 'daemon run' and with the name input, and every
\* hook line in nix.conf names that script, whose socket is one on which a
\* daemon of this run was started.
C6_HookMatchesSpawn ==
  /\ fs.hook # NoFile =>
       /\ fs.hook.socket = daemon.socket
       /\ fs.hook.socket = SockPath(daemonDir)
       /\ fs.hook.name = name
       /\ HasOp("setup", "spawn")
  /\ \A k \in DOMAIN fs.nixConf :
       /\ fs.hook # NoFile
       /\ fs.nixConf[k] = HookPath(fs.hook.dir)
       /\ daemon.pid # NoPid
       /\ daemon.state \in {"running", "stopping", "exited"}
       /\ daemon.socket = fs.hook.socket

\* The hook is registered in nix.conf and its daemon is running.
C6_Witness ==
  /\ fs.nixConf # <<>>
  /\ fs.hook # NoFile
  /\ daemon.state = "running"

\* ------------------------------------------------------------------ C7
SetupOver == pc \notin {"start", "s_which", "s_version", "s_auth", "s_use",
                        "s_extra", "s_extra_loop", "s_signkey", "s_mode",
                        "s_snapshot", "s_mkdtemp", "s_openlog", "s_spawn",
                        "s_writepid", "s_which2", "s_writehook", "s_chmod",
                        "s_mkdir", "s_register", "s_export", "s_unref",
                        "s_catch"}
StepOver(step) == IF step = "setup" THEN SetupOver ELSE pc \in {"u_end", "done"}

\* C7: no failure of an operation of setup or upload leaves its step
\* uncaught: the process never ends on an uncaught exception or an
\* unhandled rejection, and once a step is over every operation of it that
\* failed (the swallowed SIGINT of C10 aside) is followed by a job failure
\* annotation of that step.
C7_EveryFailureCaught ==
  /\ pc # "crashed"
  /\ \A i \in DOMAIN events :
       ~events[i].ok /\ events[i].op # "kill" /\ StepOver(events[i].step) =>
         \E j \in DOMAIN events :
           /\ j > i
           /\ events[j].step = events[i].step
           /\ events[j].op = "setFailed"

\* ------------------------------------------------------------------ C8
\* C8: when a 'cachix use' call of setup fails, setup does nothing after it
\* but raise one job failure: no later registration, no signing key
\* exported, no daemon, no hook, no snapshot.
C8_UseFailureAbortsSetup ==
  \A i \in DOMAIN events :
    events[i].step = "setup" /\ events[i].op = "use" /\ ~events[i].ok =>
      /\ SetupOpsAfter(i) = (IF pc = "s_catch" THEN <<>> ELSE <<"setFailed">>)
      /\ CountOp("setup", "setFailed") <= 1
      /\ env.CACHIX_SIGNING_KEY = <<>>
      /\ env.CACHIX_DAEMON_DIR = NoDir
      /\ daemon.state = "none"
      /\ fs.hook = NoFile /\ fs.nixConf = <<>>
      /\ ~HasOp("setup", "snapshot")

\* An extra cache name failed after an earlier registration succeeded, and
\* the job ran to its end.
C8_Witness ==
  /\ UploadOver
  /\ signingKey # <<>>
  /\ \E i, j \in DOMAIN events :
       /\ i < j
       /\ events[i].op = "use" /\ events[i].ok
       /\ events[j].op = "use" /\ ~events[j].ok

\* ------------------------------------------------------------------ C9
\* C9: in daemon mode upload does not stop tailing the log, and does not
\* end, before the daemon it signalled has exited.
C9_UploadWaitsForDaemonExit ==
  \A i \in DOMAIN events :
    events[i].step = "upload" /\ events[i].op = "kill" /\ events[i].ok =>
      (up.tail = "unwatched" \/ UploadOver => daemon.state = "exited")

\* ----------------------------------------------------------------- C10
\* C10: a SIGINT that could not be delivered is ignored: upload raises no
\* job failure, sends no second signal, still stops the log tail and ends
\* normally.
C10_KillFailureIgnored ==
  \A i \in DOMAIN events :
    events[i].step = "upload" /\ events[i].op = "kill" /\ ~events[i].ok =>
      /\ CountOp("upload", "kill") = 1
      /\ ~HasOp("upload", "setFailed")
      /\ UploadOpsAfter(i) =
           CASE pc = "u_unwatch" -> <<>>
             [] pc = "u_end" -> <<"unwatch">>
             [] OTHER -> <<"unwatch", "endGroup">>
      /\ pc \in {"u_unwatch", "u_end", "done"}
      /\ pc # "u_unwatch" => up.tail = "unwatched"

\* The daemon was gone when upload signalled it, and upload ended.
C10_Witness ==
  /\ UploadOver
  /\ \E i \in DOMAIN events : events[i].op = "kill" /\ ~events[i].ok

====
